---------------------------- MODULE Spec2Model ----------------------------
(***************************************************************************)
(* Model of the Bech32 probe                                               *)
(*   src/wallet-marketplace-source/bech32_probe/bech32_py_probe.py         *)
(* and of the address codec the specification builds around it.            *)
(*                                                                         *)
(* A text is a sequence of character ordinals (Python's ord): the code     *)
(* only ever compares characters, takes their ordinals and folds case.     *)
(* The codec is stateless; the state below is that of one probing session: *)
(* a caller obtains a text (by encoding, or from outside), may fold it to  *)
(* upper case, decodes it, may replace one symbol and decode again, and    *)
(* may decode the lower-case and upper-case forms side by side.            *)
(***************************************************************************)
EXTENDS Integers, Sequences, FiniteSets

\* ------------------------------------------------------------------ bounds
MaxHrpLen == 1
MaxPayloadLen == 1
MaxTextLen == 3
MaxBytesLen == 3
MaxGroupsLen == 2

\* ------------------------------------------------------- program constants
\* CHARSET = "qpzry9x8gf2tvdw0s3jn54khce6mua7l", as ordinals
CHARSET ==
  << 113, 112, 122, 114, 121, 57, 120, 56, 103, 102, 50, 116, 118, 100, 119, 48,
     115, 51, 106, 110, 53, 52, 107, 104, 99, 101, 54, 109, 117, 97, 55, 108 >>

\* GENERATORS = [0x3b6a57b2, 0x26508e6d, 0x1ea119fa, 0x3d4233dd, 0x2a1462b3]
GENERATORS == << 996825010, 642813549, 513874426, 1027748829, 705979059 >>

\* '1', the character bech32_decode looks for with rfind
SEP == 49
\* the mask 0x1ffffff of polymod
MASK25 == 33554431
\* the lowest and highest ordinal bech32_decode accepts
MIN_ORD == 33
MAX_ORD == 126
\* the target M of the checksum comparison (pm == 1)
M == 1

\* ------------------------------------------------------- integer bit work
RECURSIVE Xor(_, _)
\* a ^ b on non-negative integers
Xor(a, b) ==
  IF a = 0 THEN b
  ELSE IF b = 0 THEN a
  ELSE (((a % 2) + (b % 2)) % 2) + 2 * Xor(a \div 2, b \div 2)

RECURSIVE BitAnd(_, _)
\* a & b on non-negative integers
BitAnd(a, b) ==
  IF a = 0 \/ b = 0 THEN 0
  ELSE ((a % 2) * (b % 2)) + 2 * BitAnd(a \div 2, b \div 2)

\* a >> n and a << n
Shr(a, n) == a \div (2 ^ n)
Shl(a, n) == a * (2 ^ n)

\* ------------------------------------------------------------ str methods
IsUpper(c) == c >= 65 /\ c <= 90
IsLower(c) == c >= 97 /\ c <= 122

\* str.lower() and str.upper() on ASCII text
lower(s) == [i \in 1..Len(s) |-> IF IsUpper(s[i]) THEN s[i] + 32 ELSE s[i]]
upper(s) == [i \in 1..Len(s) |-> IF IsLower(s[i]) THEN s[i] - 32 ELSE s[i]]

\* s.rfind(c): the 0-based index of the last c in s, or -1
rfind(s, c) ==
  IF \E i \in 1..Len(s) : s[i] = c
  THEN (CHOOSE i \in 1..Len(s) : s[i] = c /\ \A j \in (i + 1)..Len(s) : s[j] # c) - 1
  ELSE -1

\* ------------------------------------------------------------ CHARSET_MAP
InCharsetMap(ch) == \E i \in 1..Len(CHARSET) : CHARSET[i] = ch
\* CHARSET_MAP with the symbols numbered from 1
CHARSET_MAP_from_1(ch) == CHOOSE i \in 1..Len(CHARSET) : CHARSET[i] = ch

\* CHARSET_MAP = {c: i for i, c in enumerate(CHARSET)}
CHARSET_MAP(ch) == (CHOOSE i \in 1..Len(CHARSET) : CHARSET[i] = ch) - 1

\* hrp_expand without the 0 between the high and the low bits
hrp_expand_no_zero(hrp) ==
  [i \in 1..Len(hrp) |-> Shr(hrp[i], 5)] \o [i \in 1..Len(hrp) |-> BitAnd(hrp[i], 31)]

\* hrp_expand with the low bits before the 0 and the high bits after it
hrp_expand_low_first(hrp) ==
  [i \in 1..Len(hrp) |-> BitAnd(hrp[i], 31)] \o << 0 >>
    \o [i \in 1..Len(hrp) |-> Shr(hrp[i], 5)]

\* ------------------------------------------------------------- hrp_expand
hrp_expand(hrp) ==
  [i \in 1..Len(hrp) |-> Shr(hrp[i], 5)] \o << 0 >>
    \o [i \in 1..Len(hrp) |-> BitAnd(hrp[i], 31)]

\* ---------------------------------------------------------------- polymod
RECURSIVE ApplyGenerators_or(_, _, _)
\* ApplyGenerators with chk |= GENERATORS[i] written for chk ^= GENERATORS[i]
ApplyGenerators_or(chk, top, i) ==
  IF i = 5 THEN chk
  ELSE ApplyGenerators_or(
         IF BitAnd(Shr(top, i), 1) = 1
         THEN chk + GENERATORS[i + 1] - BitAnd(chk, GENERATORS[i + 1])
         ELSE chk,
         top, i + 1)

RECURSIVE ApplyGenerators(_, _, _)
\* for i in range(5): if (top >> i) & 1: chk ^= GENERATORS[i]
ApplyGenerators(chk, top, i) ==
  IF i = 5 THEN chk
  ELSE ApplyGenerators(
         IF BitAnd(Shr(top, i), 1) = 1 THEN Xor(chk, GENERATORS[i + 1]) ELSE chk,
         top, i + 1)

\* PolymodStep with top = chk >> 30 written for top = chk >> 25
PolymodStep_top30(chk, v) ==
  ApplyGenerators(Xor(Shl(BitAnd(chk, MASK25), 5), v), Shr(chk, 30), 0)

\* PolymodStep with the mask 0x3ffffff written for 0x1ffffff
PolymodStep_mask26(chk, v) ==
  ApplyGenerators(Xor(Shl(BitAnd(chk, 67108863), 5), v), Shr(chk, 25), 0)

\* one iteration of polymod's outer loop
PolymodStep(chk, v) ==
  ApplyGenerators(Xor(Shl(BitAnd(chk, MASK25), 5), v), Shr(chk, 25), 0)

RECURSIVE PolymodLoop(_, _, _)
\* for v in values: chk = PolymodStep(chk, v), from values[k] on. chk is a
\* non-negative integer throughout: Xor and BitAnd are defined on those only.
PolymodLoop(chk, values, k) ==
  IF chk >= 0 /\ k <= Len(values)
  THEN PolymodLoop(PolymodStep(chk, values[k]), values, k + 1)
  ELSE chk

\* chk = 1; the loop; return chk
polymod(values) == PolymodLoop(1, values, 1)

\* ---------------------------------------------------------- bech32_decode
\* The outcome of a call: err = "none" for a normal return of
\* (hrp, data, pm, ok); otherwise the message of the ValueError raised, with
\* the offending character in ch for 'invalid char {ch}'.
Raised(msg, c) ==
  [err |-> msg, ch |-> c, hrp |-> << >>, data |-> << >>, pm |-> 0, ok |-> FALSE]
Returned(h, d, p, o) ==
  [err |-> "none", ch |-> 0, hrp |-> h, data |-> d, pm |-> p, ok |-> o]

\* any(ord(x) < 33 or ord(x) > 126 for x in bech)
CharOutOfRange(bech) ==
  \E i \in 1..Len(bech) : bech[i] < MIN_ORD \/ bech[i] > MAX_ORD

\* IsMixedCase with "or" written for "and"
IsMixedCase_either(bech) == lower(bech) # bech \/ upper(bech) # bech

\* bech.lower() != bech and bech.upper() != bech
IsMixedCase(bech) == lower(bech) # bech /\ upper(bech) # bech

\* FoldCase with the assignment left out
FoldCase_none(bech) == bech

\* bech = bech.lower()
FoldCase(bech) == lower(bech)

\* SeparatorPos with find written for rfind: the first '1', or -1
SeparatorPos_first(bech) ==
  IF \E i \in 1..Len(bech) : bech[i] = SEP
  THEN (CHOOSE i \in 1..Len(bech) : bech[i] = SEP /\ \A j \in 1..(i - 1) : bech[j] # SEP) - 1
  ELSE -1

\* pos = bech.rfind('1')
SeparatorPos(bech) == rfind(bech, SEP)

\* BadSeparatorPos without the test on what follows the separator
BadSeparatorPos_prefix_only(pos, bech) == pos < 1

\* BadSeparatorPos with >= written for >
BadSeparatorPos_off_by_one(pos, bech) == pos < 1 \/ pos + 7 >= Len(bech)

\* pos < 1 or pos + 7 > len(bech)
BadSeparatorPos(pos, bech) == pos < 1 \/ pos + 7 > Len(bech)

\* the loop over data_part: the first character that is not in CHARSET_MAP
\* raises; 0 when every character maps
FirstInvalidChar(data_part) ==
  IF \A i \in 1..Len(data_part) : InCharsetMap(data_part[i]) THEN 0
  ELSE data_part[CHOOSE i \in 1..Len(data_part) :
                   /\ ~InCharsetMap(data_part[i])
                   /\ \A j \in 1..(i - 1) : InCharsetMap(data_part[j])]

\* data.append(CHARSET_MAP[ch]) for every ch of data_part
DataValues(data_part) == [i \in 1..Len(data_part) |-> CHARSET_MAP(data_part[i])]

\* VerifyAndReturn raising on a checksum that does not verify
VerifyAndReturn_raising(hrp, data) ==
  LET pm == polymod(hrp_expand(hrp) \o data)
  IN  IF pm = M THEN Returned(hrp, data, pm, TRUE) ELSE Raised("invalid checksum", 0)

\* values = hrp_expand(hrp) + data; pm = polymod(values); ok = (pm == 1);
\* return hrp, data, pm, ok
VerifyAndReturn(hrp, data) ==
  LET pm == polymod(hrp_expand(hrp) \o data)
  IN  Returned(hrp, data, pm, pm = M)

\* bech32_decode with the separator located before the case is checked
bech32_decode_sep_first(bech) ==
  IF CharOutOfRange(bech) THEN Raised("invalid char range", 0)
  ELSE
    LET b == FoldCase(bech)
        pos == SeparatorPos(b)
    IN  IF BadSeparatorPos(pos, b) THEN Raised("invalid separator position", 0)
        ELSE IF IsMixedCase(bech) THEN Raised("mixed case", 0)
        ELSE
          LET hrp == SubSeq(b, 1, pos)
              data_part == SubSeq(b, pos + 2, Len(b))
          IN  IF FirstInvalidChar(data_part) # 0
              THEN Raised("invalid char", FirstInvalidChar(data_part))
              ELSE VerifyAndReturn(hrp, DataValues(data_part))

bech32_decode(bech) ==
  IF CharOutOfRange(bech) THEN Raised("invalid char range", 0)
  ELSE IF IsMixedCase(bech) THEN Raised("mixed case", 0)
  ELSE
    LET b == FoldCase(bech)
        pos == SeparatorPos(b)
    IN  IF BadSeparatorPos(pos, b) THEN Raised("invalid separator position", 0)
        ELSE
          LET hrp == SubSeq(b, 1, pos)
              data_part == SubSeq(b, pos + 2, Len(b))
          IN  IF FirstInvalidChar(data_part) # 0
              THEN Raised("invalid char", FirstInvalidChar(data_part))
              ELSE VerifyAndReturn(hrp, DataValues(data_part))


\* ------------------------------------------- encode (the specification's)
\* symbolOf(value), section 4.1
symbolOf(v) == CHARSET[v + 1]

\* computeChecksum(hrp, payloadValues), section 4.2: the low 30 bits of
\* polymod(hrpExpand(hrp) ++ payload ++ [0,0,0,0,0,0]) XOR M, as six 5-bit
\* groups, most significant first
computeChecksum(hrp, payload) ==
  LET pm == Xor(polymod(hrp_expand(hrp) \o payload \o << 0, 0, 0, 0, 0, 0 >>), M)
  IN  [i \in 1..6 |-> BitAnd(Shr(pm, 5 * (6 - i)), 31)]

\* encode(hrp, payloadValues), section 4.4
encode(hrp, payload) ==
  IF hrp = << >> \/ CharOutOfRange(hrp)
  THEN [err |-> "InvalidPrefix", text |-> << >>]
  ELSE IF \E i \in 1..Len(payload) : payload[i] < 0 \/ payload[i] > 31
  THEN [err |-> "InvalidValue", text |-> << >>]
  ELSE [err |-> "none",
        text |-> hrp \o << SEP >>
                   \o [i \in 1..Len(payload) |-> symbolOf(payload[i])]
                   \o [i \in 1..6 |-> symbolOf(computeChecksum(hrp, payload)[i])]]

\* ------------------------------------- BitGrouper (the specification's)
\* bit k (0-based, most significant bit of the first element first) of a
\* sequence of w-bit elements
BitOf(elems, w, k) == (elems[(k \div w) + 1] \div (2 ^ (w - 1 - (k % w)))) % 2

\* the w bits from bit k on, as a number, most significant first; the bits
\* past the end of the sequence are 0
RECURSIVE BitsFrom(_, _, _, _)
BitsFrom(elems, w, k, n) ==
  IF n = 0 THEN 0
  ELSE 2 * BitsFrom(elems, w, k, n - 1)
         + (IF k + n - 1 < w * Len(elems) THEN BitOf(elems, w, k + n - 1) ELSE 0)

\* bytesToGroups without the padded final group
bytesToGroups_no_pad(bytes) ==
  [g \in 1..((8 * Len(bytes)) \div 5) |-> BitsFrom(bytes, 8, 5 * (g - 1), 5)]

\* bytesToGroups(bytes), section 4.3: 8-bit bytes repacked into 5-bit groups,
\* most significant bit first, the final group padded with zero bits on the
\* right
bytesToGroups(bytes) ==
  [g \in 1..((8 * Len(bytes) + 4) \div 5) |-> BitsFrom(bytes, 8, 5 * (g - 1), 5)]

\* groupsToBytes(values, strict), section 4.3: the full bytes of the bit
\* stream; when strict, the bits left over after the last full byte must be
\* zero (else NonZeroPadding) and at most 4 (else ExcessPadding)
groupsToBytes(values, strict) ==
  LET nbits == 5 * Len(values)
      left == nbits % 8
      bytes == [b \in 1..(nbits \div 8) |-> BitsFrom(values, 5, 8 * (b - 1), 8)]
  IN  IF strict /\ BitsFrom(values, 5, nbits - left, left) # 0
      THEN [err |-> "NonZeroPadding", bytes |-> << >>]
      ELSE IF strict /\ left > 4
      THEN [err |-> "ExcessPadding", bytes |-> << >>]
      ELSE [err |-> "none", bytes |-> bytes]

\* ------------------------------------------------------------ input sets
\* sequences over S of length 0..n
RECURSIVE SeqsUpTo(_, _)
SeqsUpTo(S, n) ==
  IF n = 0 THEN { << >> }
  ELSE LET shorter == SeqsUpTo(S, n - 1)
       IN  shorter \cup { Append(s, c) : s \in { t \in shorter : Len(t) = n - 1 }, c \in S }

\* 'a', 'A', '1'
HrpChars == { 97, 65, 49 }
\* 32 is not a Value
PayloadVals == { 0, 31, 32 }
\* ' ', '1', 'Q', '`', 'a', 'b', DEL
TextChars == { 32, 49, 81, 96, 97, 98, 127 }

\* bytes and 5-bit groups a caller may hand to the BitGrouper
ByteVals == { 0, 1, 170, 255 }
GroupVals == { 0, 1, 16, 31 }
\* five bytes: forty bits, eight groups and no padding
FIVE_BYTES == << 255, 0, 170, 1, 129 >>
ByteSeqs == SeqsUpTo(ByteVals, MaxBytesLen) \cup { FIVE_BYTES }
GroupSeqs == SeqsUpTo(GroupVals, MaxGroupsLen)

Hrps == SeqsUpTo(HrpChars, MaxHrpLen)
Payloads == SeqsUpTo(PayloadVals, MaxPayloadLen)
ShortTexts == SeqsUpTo(TextChars, MaxTextLen)

\* the two addresses of the probe's __main__
ADDR1 ==
  << 98, 99, 49, 113, 119, 53, 48, 56, 100, 54, 113, 101, 106, 120, 116, 100,
     103, 52, 121, 53, 114, 51, 122, 97, 114, 118, 97, 114, 121, 48, 99, 53,
     120, 119, 55, 107, 121, 103, 116, 48, 56, 48 >>
ADDR2 ==
  << 98, 99, 49, 113, 114, 112, 51, 51, 103, 48, 113, 53, 99, 53, 116, 120,
     115, 112, 57, 97, 114, 121, 115, 114, 120, 52, 107, 54, 122, 100, 107,
     102, 115, 52, 110, 99, 101, 52, 120, 106, 48, 103, 100, 48, 112, 55, 122,
     57, 120, 56, 112, 50, 108, 54, 113, 50, 104, 51, 118, 120, 57, 121 >>
\* ADDR1 with its last character changed from '0' to '1'
ADDR1_LAST_1 == [ADDR1 EXCEPT ![Len(ADDR1)] = SEP]

\* "bc", a text without separator
BC == << 98, 99 >>

\* "qqqqqq": six alphabet symbols, enough to follow a separator
TAIL == << 113, 113, 113, 113, 113, 113 >>

\* short texts, the same with six symbols appended, and the probe's addresses
GivenTexts ==
  ShortTexts \cup { t \o TAIL : t \in ShortTexts } \cup { ADDR1, ADDR2, ADDR1_LAST_1, BC }

\* the alphabet, and 'Q', 'L', '1', 'b', ' '
CharsetSymbols == { CHARSET[i] : i \in 1..Len(CHARSET) }
SubstChars == CharsetSymbols \cup { 81, 76, 49, 98, 32 }

\* ---------------------------------------------------------------- session
VARIABLES
  stage,   \* "idle", "rejected" (encode failed), "ready" (a text to decode), "decoded";
           \* "grouped", "ungrouped" for a use of the BitGrouper
  src,     \* where the text came from
  bech,    \* the text
  res,     \* the outcome of bech32_decode(bech), once decoded
  base,    \* the outcome for the text before its one symbol was replaced
  edit,    \* the replacement made: position (0: none), old and new character
  probe,   \* the outcomes for the lower-case and upper-case forms of bech
  bits     \* the BitGrouper's input, groups and output

vars == << stage, src, bech, res, base, edit, probe, bits >>

NotRun == Raised("not run", 0)
NoEdit == [pos |-> 0, old |-> 0, new |-> 0]
NoProbe == [done |-> FALSE, lo |-> NotRun, up |-> NotRun]
NoOut == [err |-> "not run", bytes |-> << >>]
NoBits == [from |-> "none", bytes |-> << >>, groups |-> << >>, strict |-> FALSE, out |-> NoOut]
NoSrc == [kind |-> "none", hrp |-> << >>, payload |-> << >>, err |-> "none", upper |-> FALSE]

Init ==
  /\ stage = "idle"
  /\ src = NoSrc
  /\ bech = << >>
  /\ res = NotRun
  /\ base = NotRun
  /\ edit = NoEdit
  /\ probe = NoProbe
  /\ bits = NoBits

\* text = encode(h, p)
Encode(h, p) ==
  /\ stage = "idle"
  /\ LET e == encode(h, p)
     IN  /\ src' = [kind |-> "encoded", hrp |-> h, payload |-> p, err |-> e.err, upper |-> FALSE]
         /\ bech' = e.text
         /\ stage' = IF e.err = "none" THEN "ready" ELSE "rejected"
  /\ UNCHANGED << res, base, edit, probe, bits >>

\* a text from outside the codec
Supply(t) ==
  /\ stage = "idle"
  /\ src' = [NoSrc EXCEPT !.kind = "given"]
  /\ bech' = t
  /\ stage' = "ready"
  /\ UNCHANGED << res, base, edit, probe, bits >>

\* the caller writes the text in upper case before decoding it
ToUpper ==
  /\ stage = "ready"
  /\ ~src.upper
  /\ edit = NoEdit
  /\ src' = [src EXCEPT !.upper = TRUE]
  /\ bech' = upper(bech)
  /\ UNCHANGED << stage, res, base, edit, probe, bits >>

\* res = bech32_decode(bech)
Decode ==
  /\ stage = "ready"
  /\ res' = bech32_decode(bech)
  /\ stage' = "decoded"
  /\ UNCHANGED << src, bech, base, edit, probe, bits >>

\* one symbol after the separator of a text that decoded with valid = true
\* is replaced by another character, and the text is to be decoded again
Substitute(i, c) ==
  /\ stage = "decoded"
  /\ edit = NoEdit
  /\ res.err = "none"
  /\ res.ok
  /\ i > Len(res.hrp) + 1
  /\ i <= Len(bech)
  /\ c # bech[i]
  /\ base' = res
  /\ edit' = [pos |-> i, old |-> bech[i], new |-> c]
  /\ bech' = [bech EXCEPT ![i] = c]
  /\ res' = NotRun
  /\ probe' = NoProbe
  /\ stage' = "ready"
  /\ UNCHANGED << src, bits >>

\* decode(s.lower()) and decode(s.upper()) of the text s as obtained
CaseProbe ==
  /\ stage = "decoded"
  /\ edit = NoEdit
  /\ ~probe.done
  /\ probe' = [done |-> TRUE,
               lo |-> bech32_decode(lower(bech)),
               up |-> bech32_decode(upper(bech))]
  /\ UNCHANGED << stage, src, bech, res, base, edit, bits >>

\* groups = bytesToGroups(b)
Group(b) ==
  /\ stage = "idle"
  /\ bits' = [NoBits EXCEPT !.from = "bytes", !.bytes = b, !.groups = bytesToGroups(b)]
  /\ stage' = "grouped"
  /\ UNCHANGED << src, bech, res, base, edit, probe >>

\* groups from outside the BitGrouper
GiveGroups(g) ==
  /\ stage = "idle"
  /\ bits' = [NoBits EXCEPT !.from = "groups", !.groups = g]
  /\ stage' = "grouped"
  /\ UNCHANGED << src, bech, res, base, edit, probe >>

\* out = groupsToBytes(groups, strict)
Ungroup(strict) ==
  /\ stage = "grouped"
  /\ bits' = [bits EXCEPT !.strict = strict, !.out = groupsToBytes(bits.groups, strict)]
  /\ stage' = "ungrouped"
  /\ UNCHANGED << src, bech, res, base, edit, probe >>

Next ==
  \/ \E b \in ByteSeqs : Group(b)
  \/ \E g \in GroupSeqs : GiveGroups(g)
  \/ \E strict \in BOOLEAN : Ungroup(strict)
  \/ \E h \in Hrps, p \in Payloads : Encode(h, p)
  \/ \E t \in GivenTexts : Supply(t)
  \/ ToUpper
  \/ Decode
  \/ \E i \in DOMAIN bech, c \in SubstChars : Substitute(i, c)
  \/ CaseProbe

Spec == Init /\ [][Next]_vars

\* ============================================================== properties
\* The rules of decode, stated on the text itself.

Decoded == stage = "decoded"

\* every character is in [33,126]
InRange(t) == \A i \in DOMAIN t : t[i] \in 33..126
HasUpperLetter(t) == \E i \in DOMAIN t : t[i] \in 65..90
HasLowerLetter(t) == \E i \in DOMAIN t : t[i] \in 97..122
BothCases(t) == HasUpperLetter(t) /\ HasLowerLetter(t)

\* the text with its upper-case letters replaced by their lower-case ones
LowerCased(t) == [i \in DOMAIN t |-> IF t[i] \in 65..90 THEN t[i] + 32 ELSE t[i]]

\* the 1-based place of the last '1' of the text, 0 when it has none
LastSep(t) ==
  IF \E i \in DOMAIN t : t[i] = 49
  THEN CHOOSE i \in DOMAIN t : t[i] = 49 /\ \A j \in DOMAIN t : j > i => t[j] # 49
  ELSE 0

\* a non-empty prefix before the last '1' and at least six characters after it
SepPlaced(t) == LastSep(t) >= 2 /\ Len(t) - LastSep(t) >= 6

\* what precedes and what follows the last '1' of the lower-cased text
PrefixOf(t) == SubSeq(LowerCased(t), 1, LastSep(t) - 1)
DataPartOf(t) == SubSeq(LowerCased(t), LastSep(t) + 1, Len(t))

\* the characters after the last '1' that are no symbol of the alphabet
NonAlphabet(t) == { i \in 1..Len(DataPartOf(t)) : DataPartOf(t)[i] \notin CharsetSymbols }

\* the value of a symbol: its 0-based place in the alphabet
ValueOfSymbol(c) == (CHOOSE k \in 1..32 : CHARSET[k] = c) - 1
ValuesOf(t) == [i \in 1..Len(DataPartOf(t)) |-> ValueOfSymbol(DataPartOf(t)[i])]

\* the text passes the four structural checks
StructurallyValid(t) ==
  InRange(t) /\ ~BothCases(t) /\ SepPlaced(t) /\ NonAlphabet(t) = { }

\* the error of the earliest rule the text violates, "none" when it violates none
EarliestViolation(t) ==
  IF ~InRange(t) THEN "invalid char range"
  ELSE IF BothCases(t) THEN "mixed case"
  ELSE IF ~SepPlaced(t) THEN "invalid separator position"
  ELSE IF NonAlphabet(t) # { } THEN "invalid char"
  ELSE "none"

\* how many of the four rules the text violates
ViolationCount(t) ==
  (IF ~InRange(t) THEN 1 ELSE 0) + (IF BothCases(t) THEN 1 ELSE 0)
    + (IF ~SepPlaced(t) THEN 1 ELSE 0)
    + (IF LastSep(t) > 0 /\ NonAlphabet(t) # { } THEN 1 ELSE 0)

\* a prefix encode's caller may pass: non-empty, in range, of a single case
ValidHrp(h) == h # << >> /\ InRange(h) /\ ~BothCases(h)

\* the text decoded is encode(src.hrp, src.payload), untouched
DecodedEncoding ==
  Decoded /\ src.kind = "encoded" /\ ~src.upper /\ edit = NoEdit

\* C1: round trip. Decoding encode(hrp, payload), for a valid hrp and a
\* payload of values in [0,31], does not fail and returns the original hrp,
\* the original payload and valid = true.
C1_RoundTrip ==
  (DecodedEncoding /\ ValidHrp(src.hrp))
    => (res.err = "none" /\ res.hrp = src.hrp /\ res.data = src.payload /\ res.ok)

\* C2: a checksum failure is reported, never raised. A text that passes the
\* four structural checks decodes normally to its prefix, its data values,
\* the raw polymod of hrp_expand(prefix) ++ values, and valid, which is true
\* exactly when that polymod is 1.
C2_ChecksumReported ==
  (Decoded /\ StructurallyValid(bech))
    => LET pm == polymod(hrp_expand(PrefixOf(bech)) \o ValuesOf(bech))
       IN  /\ res.err = "none"
           /\ res.hrp = PrefixOf(bech)
           /\ res.data = ValuesOf(bech)
           /\ res.pm = pm
           /\ res.ok = (pm = 1)

\* a structurally valid text whose polymod is not 1 has been decoded
C2_Witness ==
  Decoded /\ StructurallyValid(bech) /\ res.err = "none" /\ res.pm # 1 /\ ~res.ok

\* C3: validation is fail-fast in the order char range, mixed case, separator
\* position, alphabet: the error raised is that of the earliest rule the text
\* violates, however many it violates.
C3_FailFastOrder ==
  (Decoded /\ ViolationCount(bech) >= 1)
    => (res.err = EarliestViolation(bech) /\ res.err # "none")

\* a mixed-case text without separator has failed with mixed case
C3_Witness ==
  /\ Decoded
  /\ InRange(bech) /\ BothCases(bech) /\ LastSep(bech) = 0
  /\ ViolationCount(bech) >= 2
  /\ res.err = "mixed case"

\* the replacement made to a text that had decoded with valid = true has
\* been decoded in its turn
DecodedSubstitution == Decoded /\ edit.pos > 0 /\ base.err = "none" /\ base.ok

\* C4 as stated: replacing one symbol after the separator of a valid text by
\* a different symbol of the alphabet gives a text that decodes with
\* valid = false.
C4_Original ==
  (DecodedSubstitution /\ edit.new \in CharsetSymbols)
    => (res.err = "none" /\ ~res.ok)

\* C4, amended: replacing one symbol after the separator of a valid text by
\* an alphabet symbol of a different value gives a text that fails with
\* mixed case when it now holds both cases, and decodes with valid = false
\* otherwise; it never decodes with valid = true.
C4_SingleSubstitution ==
  (/\ DecodedSubstitution
   /\ edit.new \in CharsetSymbols
   /\ ValueOfSymbol(edit.new) # ValueOfSymbol(LowerCased(<< edit.old >>)[1]))
    => IF BothCases(bech) THEN res.err = "mixed case"
       ELSE res.err = "none" /\ ~res.ok

\* the final character of a valid text has been replaced and the text
\* decoded with valid = false
C4_Witness ==
  /\ DecodedSubstitution
  /\ edit.new \in CharsetSymbols
  /\ edit.pos = Len(bech)
  /\ ValueOfSymbol(edit.new) # ValueOfSymbol(LowerCased(<< edit.old >>)[1])
  /\ res.err = "none" /\ ~res.ok

\* C5: decode splits at the last '1' of the lower-cased text. Of a
\* single-case text in range, the rules on the separator and on the data
\* part are those of the split at the last '1', and the hrp returned is all
\* that precedes it, earlier '1' characters included, the data all that
\* follows it.
C5_LastSeparator ==
  (Decoded /\ InRange(bech) /\ ~BothCases(bech))
    => IF ~SepPlaced(bech) THEN res.err = "invalid separator position"
       ELSE IF NonAlphabet(bech) # { }
       THEN /\ res.err = "invalid char"
            /\ res.ch = DataPartOf(bech)[CHOOSE i \in NonAlphabet(bech) :
                                            \A j \in NonAlphabet(bech) : i <= j]
       ELSE /\ res.err = "none"
            /\ res.hrp = PrefixOf(bech)
            /\ Len(res.hrp) = LastSep(bech) - 1
            /\ res.data = ValuesOf(bech)

\* a text with several '1' characters has decoded, and its hrp holds a '1'
C5_Witness ==
  /\ Decoded
  /\ res.err = "none"
  /\ \E i \in DOMAIN res.hrp : res.hrp[i] = 49
  /\ Cardinality({ i \in DOMAIN bech : bech[i] = 49 }) >= 2

\* C6: a text in range that holds an upper-case and a lower-case letter
\* fails with mixed case, whatever else holds of it; a text all in lower
\* case or all in upper case never does.
C6_MixedCase ==
  Decoded =>
    /\ (InRange(bech) /\ BothCases(bech)) => res.err = "mixed case"
    /\ ~BothCases(bech) => res.err # "mixed case"

\* a mixed-case text with nothing else wrong has failed with mixed case
C6_Witness ==
  /\ Decoded
  /\ InRange(bech) /\ BothCases(bech)
  /\ SepPlaced(bech) /\ NonAlphabet(bech) = { }
  /\ res.err = "mixed case"

\* C7: case insensitivity. For a text s in range, decode(lower(s)) and
\* decode(upper(s)) have the same outcome: the same error, or the same
\* lower-case hrp, data values, raw polymod and valid flag.
C7_CaseInsensitive ==
  (probe.done /\ InRange(bech))
    => /\ probe.lo = probe.up
       /\ ~HasUpperLetter(probe.up.hrp)

\* the two forms of a mixed-case text have both decoded normally
C7_Witness ==
  /\ probe.done
  /\ InRange(bech) /\ BothCases(bech)
  /\ probe.up.err = "none"
  /\ probe.lo = probe.up
  /\ HasLowerLetter(probe.up.hrp)

\* C8 as stated: decoding the first address with its last character changed
\* from '0' to '1' returns normally with valid = false.
C8_Original ==
  (Decoded /\ bech = ADDR1_LAST_1) => (res.err = "none" /\ ~res.ok)

\* C8, amended: decoding that text fails with invalid separator position,
\* the '1' written last being the last '1' of the text, with nothing after it.
C8_Scenario3 ==
  (Decoded /\ bech = ADDR1_LAST_1) => res.err = "invalid separator position"

C8_Witness ==
  /\ Decoded /\ bech = ADDR1_LAST_1
  /\ LastSep(bech) = Len(bech)
  /\ res.err = "invalid separator position"

\* C9 as stated: decoding the first address returns hrp = "bc", valid = true
\* and a raw polymod of 1.
C9_Original ==
  (Decoded /\ bech = ADDR1)
    => (res.err = "none" /\ res.hrp = << 98, 99 >> /\ res.ok /\ res.pm = 1)

\* C9, amended: decoding the first address returns hrp = "bc", 39 data
\* values, valid = false and a raw polymod of 284260763.
C9_KnownVector ==
  (Decoded /\ bech = ADDR1)
    => /\ res.err = "none"
       /\ res.hrp = << 98, 99 >>
       /\ Len(res.data) = 39
       /\ res.pm = 284260763
       /\ ~res.ok

C9_Witness ==
  Decoded /\ bech = ADDR1 /\ res.err = "none" /\ res.pm = 284260763 /\ ~res.ok

\* C10: on a successful decode the payload returned is the data values less
\* the six of the checksum: as many as there are characters after the
\* separator, less six, and none for a text with six symbols after it.
C10_PayloadSplit ==
  (Decoded /\ res.err = "none")
    => Len(res.data) = (Len(bech) - LastSep(bech)) - 6

\* the text is encode(src.hrp, src.payload), just rendered
JustEncoded ==
  stage = "ready" /\ src.kind = "encoded" /\ src.err = "none" /\ ~src.upper /\ edit = NoEdit

\* C11: checksum construction. For an hrp in range and a payload of values
\* in [0,31], the six values of computeChecksum(hrp, payload) are in [0,31],
\* are what encode renders last, and make
\* polymod(hrp_expand(hrp) ++ payload ++ checksum) equal to 1.
C11_ChecksumConstruction ==
  JustEncoded
    => LET c == computeChecksum(src.hrp, src.payload)
           n == Len(bech)
       IN  /\ Len(c) = 6
           /\ \A i \in 1..6 : c[i] \in 0..31 /\ bech[n - 6 + i] = CHARSET[c[i] + 1]
           /\ polymod(hrp_expand(src.hrp) \o src.payload \o c) = 1

\* a non-empty payload has been encoded, with a checksum that is not all zero
C11_Witness ==
  /\ JustEncoded
  /\ Len(src.payload) >= 1
  /\ computeChecksum(src.hrp, src.payload) # << 0, 0, 0, 0, 0, 0 >>
  /\ polymod(hrp_expand(src.hrp) \o src.payload \o computeChecksum(src.hrp, src.payload)) = 1

\* the places of the '1' characters of a text
Ones(t) == { i \in DOMAIN t : t[i] = 49 }

\* C12: separator position bounds. A single-case text in range fails with
\* invalid separator position exactly when it has no '1', or its last '1'
\* is its first character, or fewer than six characters follow its last
\* '1'; with a non-empty prefix and exactly six characters after the last
\* '1' it passes; and "bc" fails with invalid separator position.
C12_SeparatorBounds ==
  (Decoded /\ InRange(bech) /\ ~BothCases(bech))
    => /\ (res.err = "invalid separator position")
            <=> \/ Ones(bech) = { }
                \/ \A i \in Ones(bech) : i = 1
                \/ \A i \in Ones(bech) : \E j \in Ones(bech) : j >= i /\ Len(bech) - j < 6
       /\ bech = BC => res.err = "invalid separator position"

\* a text with a non-empty prefix and exactly six characters after its last
\* '1' has passed the separator check
C12_Witness ==
  /\ Decoded /\ InRange(bech) /\ ~BothCases(bech)
  /\ \E i \in Ones(bech) :
       /\ i >= 2
       /\ Len(bech) - i = 6
       /\ \A j \in Ones(bech) : j <= i
  /\ res.err # "invalid separator position"

\* groups have been made of bytes
GroupedBytes == stage \in { "grouped", "ungrouped" } /\ bits.from = "bytes"

\* the padding bits of the groups made of n bytes: 5 * groups - 8 * n
PadBits == 5 * Len(bits.groups) - 8 * Len(bits.bytes)

\* C13: bit-grouping round trip. bytesToGroups(b) is ceil(8 * len(b) / 5)
\* values in [0,31] whose padding bits (fewer than 5, the lowest of the last
\* value) are zero, and groupsToBytes of them, strict, returns b and fails
\* with neither NonZeroPadding nor ExcessPadding.
C13_BitGroupingRoundTrip ==
  GroupedBytes
    => /\ 5 * Len(bits.groups) >= 8 * Len(bits.bytes)
       /\ PadBits \in 0..4
       /\ \A i \in DOMAIN bits.groups : bits.groups[i] \in 0..31
       /\ PadBits > 0 => bits.groups[Len(bits.groups)] % (2 ^ PadBits) = 0
       /\ (stage = "ungrouped" /\ bits.strict)
            => (bits.out.err = "none" /\ bits.out.bytes = bits.bytes)

\* bytes that need padding and end in a 1 bit have come back, strict
C13_Witness ==
  /\ GroupedBytes /\ stage = "ungrouped" /\ bits.strict
  /\ PadBits > 0
  /\ Len(bits.bytes) >= 2
  /\ bits.bytes[Len(bits.bytes)] % 2 = 1
  /\ bits.out.err = "none" /\ bits.out.bytes = bits.bytes

\* chk before the iteration for values[k] and after every later one: each
\* chk is in [0, 2^30) and its top five bits chk >> 25 in [0,31], and the
\* shifted value (chk & 0x1ffffff) << 5 of the next iteration is below 2^30
RECURSIVE Within30Bits(_, _, _)
Within30Bits(chk, values, k) ==
  /\ chk >= 0 /\ chk < 2 ^ 30
  /\ chk \div (2 ^ 25) \in 0..31
  /\ (chk % (2 ^ 25)) * 32 < 2 ^ 30
  /\ k <= Len(values) => Within30Bits(PolymodStep(chk, values[k]), values, k + 1)

\* a text as obtained has decoded normally
DecodedAsObtained == Decoded /\ edit = NoEdit /\ res.err = "none"

\* C14: polymod stays within 30 bits. Over the values of a decoded text,
\* all in [0,31], chk starts at 1 and is in [0, 2^30) after every
\* iteration, with top = chk >> 25 in [0,31]. The generators being below
\* 2^30 as well, no intermediate result reaches 2^30, the raw value returned
\* is below 2^30, and arithmetic on 32 bits cuts nothing off.
C14_PolymodWithin30Bits ==
  DecodedAsObtained
    => LET values == hrp_expand(res.hrp) \o res.data
       IN  /\ \A i \in DOMAIN values : values[i] \in 0..31
           /\ \A i \in DOMAIN GENERATORS : GENERATORS[i] \in 0..(2 ^ 30 - 1)
           /\ Within30Bits(1, values, 1)
           /\ res.pm >= 0 /\ res.pm < 2 ^ 30

\* a polymod with its 30th bit set has been returned
C14_Witness ==
  /\ DecodedAsObtained
  /\ Len(res.data) > 6
  /\ res.pm >= 2 ^ 29 /\ res.pm < 2 ^ 30
  /\ Within30Bits(1, hrp_expand(res.hrp) \o res.data, 1)

\* hrp_expand(h) is 2n + 1 entries for the n characters of h: n in [1,3],
\* a 0, and n in [0,31]
ExpandShape(h) ==
  LET e == hrp_expand(h)
      n == Len(h)
  IN  /\ Len(e) = 2 * n + 1
      /\ \A i \in 1..n : e[i] \in 1..3
      /\ e[n + 1] = 0
      /\ \A i \in 1..n : e[n + 1 + i] \in 0..31

\* every way to read v as hrp_expand(h2) ++ d2, h2 of n >= 1 characters in
\* [33,126] and d2 of values in [0,31]: for each n, h2 can only be the
\* characters of high bits v[1..n] and low bits v[n+2..2n+1], and d2 the rest
Readings(v) ==
  { r \in { << [i \in 1..n |-> 32 * v[i] + v[n + 1 + i]], SubSeq(v, 2 * n + 2, Len(v)) >> :
              n \in { m \in 1..Len(v) : 2 * m + 1 <= Len(v) } } :
      /\ InRange(r[1])
      /\ \A i \in DOMAIN r[2] : r[2][i] \in 0..31
      /\ hrp_expand(r[1]) \o r[2] = v }

\* the input of the checksum for prefix h and data d is of the shape stated
\* and reads back as h and d only
UnambiguousInput(h, d) ==
  ExpandShape(h) /\ Readings(hrp_expand(h) \o d) = { << h, d >> }

\* C15: unambiguous checksum input. For an hrp of n >= 1 characters in
\* [33,126], hrp_expand(hrp) has 2n + 1 entries, the first n in [1,3], then
\* a 0, the last n in [0,31]; and hrp_expand(hrp) ++ data, data in [0,31],
\* is the checksum input of no other prefix and data.
C15_UnambiguousInput ==
  /\ DecodedAsObtained => UnambiguousInput(res.hrp, res.data)
  /\ JustEncoded
       => UnambiguousInput(src.hrp, src.payload \o computeChecksum(src.hrp, src.payload))

\* a checksum input with a 0 where the 0 of a longer prefix would stand has
\* been read back as its own prefix and data only
C15_Witness ==
  /\ DecodedAsObtained
  /\ LET v == hrp_expand(res.hrp) \o res.data
     IN  \E n \in 1..Len(v) : n # Len(res.hrp) /\ 2 * n + 1 <= Len(v) /\ v[n + 1] = 0
  /\ UnambiguousInput(res.hrp, res.data)

\* the symbols of data values, as the alphabet writes them
Rendering(data) == [i \in DOMAIN data |-> CHARSET[data[i] + 1]]

\* C16: decode success postcondition. Whenever decode returns, with valid
\* true or false, the hrp is non-empty and holds no upper-case letter, at
\* least six data values are returned, each in [0,31], none of them written
\* '1', and hrp, '1' and the data values as the alphabet writes them make up
\* the lower-cased text.
C16_SuccessPostcondition ==
  (Decoded /\ res.err = "none")
    => /\ res.hrp # << >>
       /\ ~HasUpperLetter(res.hrp)
       /\ Len(res.data) >= 6
       /\ \A i \in DOMAIN res.data :
            res.data[i] \in 0..31 /\ CHARSET[res.data[i] + 1] # 49
       /\ res.hrp \o << 49 >> \o Rendering(res.data) = LowerCased(bech)

\* an upper-case text has decoded, with valid = false
C16_Witness ==
  /\ Decoded /\ res.err = "none" /\ ~res.ok
  /\ HasUpperLetter(bech)
  /\ Len(res.data) >= 6
  /\ res.hrp \o << 49 >> \o Rendering(res.data) = LowerCased(bech)

=============================================================================
